---- MODULE Spec2Model ----
(***************************************************************************)
(* Model of the admin media-collection editor (pages/admin/Carousel.jsx,   *)
(* the masonry editor is the same code with another capacity) and of the   *)
(* invite / testimonial workflow (pages/public/TestimonialSubmit.jsx,      *)
(* pages/admin/Testimonials.jsx).                                          *)
(* The route guard (routes/guards.jsx with context/auth.jsx) and the image *)
(* transcoder of the editor are modelled as well, and so are the append of *)
(* a second editor session on the same collection, the two sections of the *)
(* public page (pages/public/CarouselSection.jsx, MasonrySection.jsx) and  *)
(* the avatar cropper of the invite form (components/AvatarCropper.jsx).   *)
(*                                                                         *)
(* The remote (Firestore documents, Storage objects) and the React state   *)
(* of one admin session are variables; every await of a handler is a       *)
(* separate step, so handlers of the same session interleave the way       *)
(* promises interleave on the event loop.                                  *)
(***************************************************************************)
EXTENDS Integers, Sequences, FiniteSets, TLC

\* ------------------------------------------------------------------ bounds
MaxIds == 6          \* ids that ever exist (initial documents + uploaded files)
MaxOps == 2          \* handlers started in one behaviour
MaxFiles == 2        \* files selected in one file dialog
InitMax == 3         \* documents in the collection when the editor is mounted

\* --------------------------------------------------------- program constants
MAX_IMAGES == 5

IdSet == 1..MaxIds
NoId == 0

VARIABLES
  docs,        \* Firestore collection "gallery": id -> [index, full]
  store,       \* Storage: the ids with an object under gallery/<id>/
  items,       \* useState items: sequence of [id, index]
  busyGlobal,  \* useState busyGlobal
  busyIds,     \* useState busyIds
  dragId,      \* useState dragId (NoId = null)
  active,      \* overall.active
  picker,      \* the file dialog of the upload input is open
  dirty,       \* the query result changed since the last delivered snapshot
  pick,        \* the running onPick, [pc |-> "idle"] when none
  dels,        \* the running onDelete calls
  drops,       \* the running onDrop calls
  repls,       \* the running onReplaceFile calls
  gone,        \* history: the ids whose onDelete ran to its end without failing
  alert,       \* text the last step passed to alert(), "" when it alerted nothing
  nextId,      \* next fresh document id (crypto.randomUUID)
  nOps         \* handlers started so far

evars == <<docs, store, items, busyGlobal, busyIds, dragId, active, picker,
           dirty, pick, dels, drops, repls, gone, alert, nextId, nOps>>

VARIABLES
  now,           \* the clock, Date.now(), in ms
  invites,       \* Firestore collection "testimonialInvites": token -> record
  testimonials,  \* Firestore collection "testimonials": token -> record
  tabs,          \* the browser tabs showing TestimonialSubmit
  creating,      \* the running createInvite of the admin page
  statuses,      \* useState statuses of AdminTestimonials: token -> status
  runs,          \* the running status checks of the invite snapshot callback
  toast,         \* text the last step passed to showToast, "" when none
  nextToken,     \* next fresh token (makeToken)
  nLoads,        \* page loads of the submission page so far
  nRefresh       \* invite snapshots delivered so far

tvars == <<now, invites, testimonials, tabs, creating, statuses, runs, toast,
           nextToken, nLoads, nRefresh>>

VARIABLES
  ADMIN_UID,     \* import.meta.env.VITE_ADMIN_UID of the build, "" when unset
  user,          \* useState user of AuthProvider: a uid, "" = null
  loading,       \* useState loading of AuthProvider
  route,         \* the route the router is on
  view,          \* what the element of that route rendered
  nAuth,         \* auth state changes delivered so far
  file,          \* the File handed to makeOptimizedAndBlur, with its decoded size
  optimizedBlob, \* the optimizedBlob it returned, [kind |-> "none"] before
  tiny           \* the size of the canvas of its placeholder, 0 x 0 before

gvars == <<ADMIN_UID, user, loading, route, view, nAuth, file, optimizedBlob,
           tiny>>

VARIABLES
  items2,        \* useState items of a second admin session on the same collection
  busyGlobal2,   \* its busyGlobal
  active2,       \* its overall.active
  pick2,         \* its running onPick
  alert2         \* text its last step passed to alert()

svars == <<items2, busyGlobal2, active2, pick2, alert2>>

VARIABLES
  carousel,      \* CarouselSection of the public page: its fetch and its items
  masonry,       \* MasonrySection of the public page: its fetch, isLoading, images
  cropper,       \* AvatarCropper of the admin invite form and its onCropped
  unhandled      \* the operations whose promise rejected with no handler

pvars == <<carousel, masonry, cropper, unhandled>>

vars == <<evars, tvars, gvars, svars, pvars>>

\* ------------------------------------------------------------- list helpers
Range(s) == {s[k] : k \in 1..Len(s)}

IdsOf(s) == {s[k].id : k \in 1..Len(s)}

Max(a, b) == IF a >= b THEN a ELSE b

Min(a, b) == IF a <= b THEN a ELSE b

\* Array.prototype.findIndex((x) => x.id === id): 0-based position, -1 if absent
findIndex(s, id) ==
  IF \E k \in 1..Len(s) : s[k].id = id
  THEN (CHOOSE k \in 1..Len(s) : s[k].id = id /\ \A m \in 1..(k-1) : s[m].id # id) - 1
  ELSE -1

\* start position of Array.prototype.splice: negative counts from the end, clamped
spliceStart(len, start) ==
  IF start < 0 THEN Max(len + start, 0) ELSE Min(start, len)

\* s.splice(start, 1): the array left and the removed elements
spliceRemoved(s, start) ==
  LET p == spliceStart(Len(s), start)
  IN IF p < Len(s) THEN <<s[p + 1]>> ELSE <<>>

spliceRest(s, start) ==
  LET p == spliceStart(Len(s), start)
  IN IF p < Len(s)
     THEN [k \in 1..(Len(s) - 1) |-> IF k <= p THEN s[k] ELSE s[k + 1]]
     ELSE s

\* s.splice(start, 0, x)
spliceInsert(s, start, x) ==
  LET p == spliceStart(Len(s), start)
  IN [k \in 1..(Len(s) + 1) |->
        IF k <= p THEN s[k] ELSE IF k = p + 1 THEN x ELSE s[k - 1]]

\* .map((x, i) => ({ ...x, index: i + 1 }))
reindex(s) == [k \in 1..Len(s) |-> [id |-> s[k].id, index |-> k]]

\* .filter((x) => x.id !== id)
RECURSIVE filterOut(_, _)
filterOut(s, id) ==
  IF s = <<>> THEN <<>>
  ELSE IF Head(s).id = id THEN filterOut(Tail(s), id)
       ELSE <<Head(s)>> \o filterOut(Tail(s), id)

\* query(collection, orderBy("index","asc"), limit(n)): ties are ordered by id
RECURSIVE orderedDocs(_, _, _)
orderedDocs(d, ids, n) ==
  IF ids = {} \/ n = 0 THEN <<>>
  ELSE LET m == CHOOSE a \in ids : \A b \in ids :
                  \/ d[a].index < d[b].index
                  \/ (d[a].index = d[b].index /\ a <= b)
       IN <<[id |-> m, index |-> d[m].index]>> \o orderedDocs(d, ids \ {m}, n - 1)

\* index 0 stands for a document without an index field, which a query
\* ordered by index does not return
querySnapshot(d) ==
  orderedDocs(d, {id \in DOMAIN d : d[id].index # 0}, MAX_IMAGES)

\* batch.set(doc(id), {index, updatedAt}, {merge: true}) for every element of s:
\* an existing document keeps its other fields, a missing one is created
batchSetIndex(d, s) ==
  [id \in (DOMAIN d) \cup IdsOf(s) |->
     IF id \in IdsOf(s)
     THEN LET k == CHOOSE k \in 1..Len(s) : s[k].id = id
          IN [index |-> k, full |-> (id \in DOMAIN d /\ d[id].full)]
     ELSE d[id]]

\* deleteDoc(doc(id))
removeDoc(d, id) == [x \in (DOMAIN d) \ {id} |-> d[x]]

\* setDoc(doc(id), {index, ...urls}) without merge
putDoc(d, id, idx) ==
  [x \in (DOMAIN d) \cup {id} |-> IF x = id THEN [index |-> idx, full |-> TRUE] ELSE d[x]]

\* setDoc(doc(id), {...urls, updatedAt}, {merge: true}): an existing document
\* keeps its index, a missing one is created without one
mergeUrls(d, id) ==
  [x \in (DOMAIN d) \cup {id} |->
     IF x # id THEN d[x]
     ELSE [index |-> IF id \in DOMAIN d THEN d[id].index ELSE 0, full |-> TRUE]]

\* ------------------------------------------------------------ derived state
canAdd == Len(items) < MAX_IMAGES

isUploading == active > 0 \/ busyGlobal

idlePick == [pc |-> "idle", L |-> 0, n |-> 0, i |-> 0, id |-> NoId]

Running == pick.pc # "idle" \/ dels # {} \/ drops # {} \/ repls # {}

Quiescent == ~Running /\ ~dirty

\* bookkeeping of a handler start
StartOp ==
  /\ nOps < MaxOps
  /\ nOps' = nOps + 1

\* tag that tells two running calls of the same handler apart
freeTag(ops) == CHOOSE t \in 1..MaxOps : \A o \in ops : o.tag # t

\* the step alerts nothing
Quiet == alert' = ""

\* ------------------------------------------------------------------- Init
InitDocs(k) == [id \in 1..k |-> [index |-> id, full |-> TRUE]]

\* the editor is mounted on a collection of k documents and has received the
\* first snapshot; nothing else has happened
Mounted(k) ==
  /\ docs = InitDocs(k)
  /\ store = 1..k
  /\ items = querySnapshot(InitDocs(k))
  /\ nextId = k + 1
  /\ busyGlobal = FALSE
  /\ busyIds = {}
  /\ dragId = NoId
  /\ active = 0
  /\ picker = FALSE
  /\ dirty = FALSE
  /\ pick = idlePick
  /\ dels = {}
  /\ drops = {}
  /\ repls = {}
  /\ gone = {}
  /\ alert = ""
  /\ nOps = 0

\* no second session is open
NoOther ==
  /\ items2 = <<>>
  /\ busyGlobal2 = FALSE
  /\ active2 = 0
  /\ pick2 = idlePick
  /\ alert2 = ""

\* a second session is mounted on the same collection and has received the
\* same first snapshot
Mounted2 ==
  /\ items2 = items
  /\ busyGlobal2 = FALSE
  /\ active2 = 0
  /\ pick2 = idlePick
  /\ alert2 = ""

\* the public page and the avatar cropper are not mounted
NoPublic ==
  /\ carousel = [pc |-> "unmounted", items |-> <<>>]
  /\ masonry = [pc |-> "unmounted", isLoading |-> TRUE, images |-> FALSE]
  /\ cropper = [pc |-> "closed", page |-> 1]
  /\ unhandled = {}

EInit == \E k \in 0..Min(InitMax, MAX_IMAGES) : Mounted(k)

\* the editor is mounted on a collection that is already at capacity
FullInit == Mounted(MAX_IMAGES)

\* ------------------------------------------------------------- subscription
\* onSnapshot callback: setItems(snap.docs.map(...))
\* history: the prev of every running onDelete is now older than a snapshot
onSnapshot ==
  /\ dirty
  /\ items' = querySnapshot(docs)
  /\ dirty' = FALSE
  /\ dels' = {[op EXCEPT !.stale = TRUE] : op \in dels}
  /\ Quiet
  /\ UNCHANGED <<docs, store, busyGlobal, busyIds, dragId, active, picker,
                 pick, drops, nextId, nOps>>
  /\ UNCHANGED <<repls, gone, tvars, gvars, svars, pvars>>

\* ------------------------------------------------------------------ append
\* click on the Upload button: uploadInputRef.current.click() opens the file
\* dialog unless the input is disabled (disabled={!canAdd || isUploading})
openPicker ==
  /\ ~picker
  /\ canAdd /\ ~isUploading
  /\ nOps < MaxOps
  /\ picker' = TRUE
  /\ Quiet
  /\ UNCHANGED <<docs, store, items, busyGlobal, busyIds, dragId, active,
                 dirty, pick, dels, drops, nextId, nOps>>
  /\ UNCHANGED <<repls, gone, tvars, gvars, svars, pvars>>

\* the dialog is dismissed without a selection: no change event
cancelPicker ==
  /\ picker
  /\ picker' = FALSE
  /\ Quiet
  /\ UNCHANGED <<docs, store, items, busyGlobal, busyIds, dragId, active,
                 dirty, pick, dels, drops, nextId, nOps>>
  /\ UNCHANGED <<repls, gone, tvars, gvars, svars, pvars>>

\* files.slice(0, slots).length for nfiles selected files
selectedCount(nfiles) == Min(nfiles, Max(0, MAX_IMAGES - Len(items)))

\* onPick up to its first await; nfiles = e.target.files.length
onPick(nfiles) ==
  /\ picker
  /\ pick.pc = "idle"
  /\ picker' = FALSE
  /\ StartOp
  /\ IF ~canAdd
     THEN /\ alert' = "Gallery is full"
          /\ UNCHANGED <<busyGlobal, pick, nextId>>
     ELSE /\ nextId + selectedCount(nfiles) - 1 <= MaxIds
          /\ busyGlobal' = TRUE
          /\ pick' = [pc |-> "transcode", L |-> Len(items),
                      n |-> selectedCount(nfiles), i |-> 0, id |-> nextId]
          /\ nextId' = nextId + 1
          /\ Quiet
  /\ UNCHANGED <<docs, store, items, busyIds, dragId, active, dirty, dels, drops>>
  /\ UNCHANGED <<repls, gone, tvars, gvars, svars, pvars>>

\* pickCatch without the finally
pickCatchBusy ==
  /\ alert' = "Upload failed."
  /\ busyGlobal' = busyGlobal
  /\ pick' = idlePick

\* catch + finally of onPick
pickCatch ==
  /\ alert' = "Upload failed."
  /\ busyGlobal' = FALSE
  /\ pick' = idlePick

\* await makeOptimizedAndBlur(file), then setOverall(active + 1)
pickTranscode(ok) ==
  /\ pick.pc = "transcode"
  /\ IF ok
     THEN /\ active' = active + 1
          /\ pick' = [pick EXCEPT !.pc = "upload"]
          /\ Quiet
          /\ UNCHANGED busyGlobal
     ELSE /\ pickCatch
          /\ UNCHANGED active
  /\ UNCHANGED <<docs, store, items, busyIds, dragId, picker, dirty, dels,
                 drops, nextId, nOps>>
  /\ UNCHANGED <<repls, gone, tvars, gvars, svars, pvars>>

\* await Promise.all([origPromise, optPromise]); await getDownloadURL x2;
\* setOverall(active - 1) is reached only when nothing rejected.  stored:
\* an upload task completed and left its object
pickUpload(ok, stored) ==
  /\ pick.pc = "upload"
  /\ IF ok
     THEN /\ stored
          /\ active' = Max(0, active - 1)
          /\ pick' = [pick EXCEPT !.pc = "setdoc"]
          /\ Quiet
          /\ UNCHANGED busyGlobal
     ELSE /\ pickCatch
          /\ UNCHANGED active
  /\ store' = IF stored THEN store \cup {pick.id} ELSE store
  /\ UNCHANGED <<docs, items, busyIds, dragId, picker, dirty, dels, drops,
                 nextId, nOps>>
  /\ UNCHANGED <<repls, gone, tvars, gvars, svars, pvars>>

\* pickSetDoc with nextIndex computed from the list on screen at the time of
\* the write
pickSetDocLive(ok) ==
  /\ pick.pc = "setdoc"
  /\ IF ok
     THEN /\ docs' = putDoc(docs, pick.id, Len(items) + 1 + pick.i)
          /\ dirty' = TRUE
          /\ IF pick.i + 1 < pick.n
             THEN /\ pick' = [pick EXCEPT !.pc = "transcode", !.i = @ + 1,
                                          !.id = nextId]
                  /\ nextId' = nextId + 1
                  /\ UNCHANGED busyGlobal
             ELSE /\ pick' = idlePick
                  /\ busyGlobal' = FALSE
                  /\ UNCHANGED nextId
          /\ Quiet
     ELSE /\ pickCatch
          /\ UNCHANGED <<docs, dirty, nextId>>
  /\ UNCHANGED <<store, items, busyIds, dragId, active, picker, dels, drops, nOps>>
  /\ UNCHANGED <<repls, gone, tvars, gvars, svars, pvars>>

\* await setDoc(doc(db, "gallery", id), {index: nextIndex, ...}), next iteration
pickSetDoc(ok) ==
  /\ pick.pc = "setdoc"
  /\ IF ok
     THEN /\ docs' = putDoc(docs, pick.id, pick.L + 1 + pick.i)
          /\ dirty' = TRUE
          /\ IF pick.i + 1 < pick.n
             THEN /\ pick' = [pick EXCEPT !.pc = "transcode", !.i = @ + 1,
                                          !.id = nextId]
                  /\ nextId' = nextId + 1
                  /\ UNCHANGED busyGlobal
             ELSE /\ pick' = idlePick
                  /\ busyGlobal' = FALSE
                  /\ UNCHANGED nextId
          /\ Quiet
     ELSE /\ pickCatch
          /\ UNCHANGED <<docs, dirty, nextId>>
  /\ UNCHANGED <<store, items, busyIds, dragId, active, picker, dels, drops, nOps>>
  /\ UNCHANGED <<repls, gone, tvars, gvars, svars, pvars>>

\* ----------------------------------------------------------------- replace
\* Replace button of item id (disabled={busyIds.has(id) || isUploading}), a
\* file chosen in its dialog, onReplaceFile up to its first await
onReplaceFile(id) ==
  /\ ~picker
  /\ id \in IdsOf(items)
  /\ ~(id \in busyIds \/ isUploading)
  /\ StartOp
  /\ busyIds' = busyIds \cup {id}
  /\ repls' = repls \cup {[id |-> id, pc |-> "transcode"]}
  /\ Quiet
  /\ UNCHANGED <<docs, store, items, busyGlobal, dragId, active, picker, dirty,
                 pick, dels, drops, nextId>>
  /\ UNCHANGED <<gone, tvars, gvars, svars, pvars>>

\* catch + finally of onReplaceFile
replCatch(op) ==
  /\ alert' = "Replace failed."
  /\ busyIds' = busyIds \ {op.id}
  /\ repls' = repls \ {op}

\* the call goes on to its next await
replStep(op, pc) ==
  /\ repls' = (repls \ {op}) \cup {[op EXCEPT !.pc = pc]}
  /\ Quiet
  /\ UNCHANGED busyIds

\* await makeOptimizedAndBlur(file), then setOverall(active + 1)
replTranscode(op, ok) ==
  /\ op \in repls /\ op.pc = "transcode"
  /\ IF ok
     THEN replStep(op, "upload") /\ active' = active + 1
     ELSE replCatch(op) /\ UNCHANGED active
  /\ UNCHANGED <<docs, store, items, busyGlobal, dragId, picker, dirty, pick,
                 dels, drops, nextId, nOps>>
  /\ UNCHANGED <<gone, tvars, gvars, svars, pvars>>

\* the two upload tasks and getDownloadURL of uploadOriginalAndOptimized for
\* gallery/<id>/; setOverall(active - 1) only when nothing rejected
replUpload(op, ok, stored) ==
  /\ op \in repls /\ op.pc = "upload"
  /\ IF ok
     THEN stored /\ replStep(op, "setdoc") /\ active' = Max(0, active - 1)
     ELSE replCatch(op) /\ UNCHANGED active
  /\ store' = IF stored THEN store \cup {op.id} ELSE store
  /\ UNCHANGED <<docs, items, busyGlobal, dragId, picker, dirty, pick, dels,
                 drops, nextId, nOps>>
  /\ UNCHANGED <<gone, tvars, gvars, svars, pvars>>

\* await setDoc(doc(db, "gallery", id), {urls, updatedAt}, {merge: true}), finally
replSetDoc(op, ok) ==
  /\ op \in repls /\ op.pc = "setdoc"
  /\ IF ok
     THEN /\ docs' = mergeUrls(docs, op.id)
          /\ dirty' = TRUE
          /\ busyIds' = busyIds \ {op.id}
          /\ repls' = repls \ {op}
          /\ Quiet
     ELSE replCatch(op) /\ UNCHANGED <<docs, dirty>>
  /\ UNCHANGED <<store, items, busyGlobal, dragId, active, picker, pick, dels,
                 drops, nextId, nOps>>
  /\ UNCHANGED <<gone, tvars, gvars, svars, pvars>>

\* ------------------------------------------------------------------ delete
\* onDelete up to its first await (confirm() answered yes)
onDelete(id) ==
  /\ ~picker
  /\ id \in IdsOf(items)
  /\ ~(id \in busyIds \/ isUploading)
  /\ StartOp
  /\ LET prev == items
         next == reindex(filterOut(prev, id))
     IN /\ items' = next
        /\ dels' = dels \cup {[tag |-> freeTag(dels), id |-> id, prev |-> prev,
                               next |-> next, pc |-> "folder", touched |-> FALSE,
                               stale |-> FALSE]}
  /\ busyIds' = busyIds \cup {id}
  /\ Quiet
  /\ UNCHANGED <<docs, store, busyGlobal, dragId, active, picker, dirty, pick,
                 drops, nextId>>
  /\ UNCHANGED <<repls, gone, tvars, gvars, svars, pvars>>

\* delCatch without the setItems(prev)
delCatchNoRestore(op) ==
  /\ alert' = "Delete failed. Restoring previous state."
  /\ items' = items
  /\ busyIds' = busyIds \ {op.id}
  /\ dels' = dels \ {op}

\* catch + finally of onDelete
delCatch(op) ==
  /\ alert' = "Delete failed. Restoring previous state."
  /\ items' = op.prev
  /\ busyIds' = busyIds \ {op.id}
  /\ dels' = dels \ {op}

\* the call goes on to its next await; touched: it has changed the remote
delStep(op, pc, changed) ==
  dels' = (dels \ {op}) \cup {[op EXCEPT !.pc = pc, !.touched = (@ \/ changed)]}

\* await deleteFolder(`gallery/${id}`): listAll, then deleteObject(it).catch(() => {})
\* for every object; ok: listAll resolved; kept: a deleteObject rejected and
\* its object is still there
deleteFolder(op, ok, kept) ==
  /\ op \in dels /\ op.pc = "folder"
  /\ kept => op.id \in store
  /\ IF ok
     THEN /\ store' = IF kept THEN store ELSE store \ {op.id}
          /\ delStep(op, "doc", ~kept /\ op.id \in store)
          /\ Quiet
          /\ UNCHANGED <<items, busyIds>>
     ELSE /\ kept = (op.id \in store)
          /\ delCatch(op)
          /\ UNCHANGED store
  /\ UNCHANGED <<docs, busyGlobal, dragId, active, picker, dirty, pick, drops,
                 nextId, nOps>>
  /\ UNCHANGED <<repls, gone, tvars, gvars, svars, pvars>>

\* await deleteDoc(doc(db, "gallery", id))
delDeleteDoc(op, ok) ==
  /\ op \in dels /\ op.pc = "doc"
  /\ IF ok
     THEN /\ docs' = removeDoc(docs, op.id)
          /\ dirty' = (dirty \/ op.id \in DOMAIN docs)
          /\ delStep(op, "batch", op.id \in DOMAIN docs)
          /\ Quiet
          /\ UNCHANGED <<items, busyIds>>
     ELSE /\ delCatch(op)
          /\ UNCHANGED <<docs, dirty>>
  /\ UNCHANGED <<store, busyGlobal, dragId, active, picker, pick, drops,
                 nextId, nOps>>
  /\ UNCHANGED <<repls, gone, tvars, gvars, svars, pvars>>

\* await batch.commit() of the reindex batch, then finally; a batch without
\* writes resolves without a request
delBatchCommit(op, ok) ==
  /\ op \in dels /\ op.pc = "batch"
  /\ ok \/ op.next # <<>>
  /\ IF ok
     THEN /\ docs' = batchSetIndex(docs, op.next)
          /\ dirty' = (dirty \/ op.next # <<>>)
          /\ busyIds' = busyIds \ {op.id}
          /\ dels' = dels \ {op}
          /\ gone' = gone \cup {op.id}
          /\ Quiet
          /\ UNCHANGED items
     ELSE /\ delCatch(op)
          /\ UNCHANGED <<docs, dirty, gone>>
  /\ UNCHANGED <<store, busyGlobal, dragId, active, picker, pick, drops,
                 nextId, nOps>>
  /\ UNCHANGED <<repls, tvars, gvars, svars, pvars>>

\* ----------------------------------------------------------------- reorder
\* onDragStart={() => !isUploading && onDragStart(it.id)}
onDragStart(id) ==
  /\ ~picker
  /\ id \in IdsOf(items)
  /\ ~isUploading
  /\ nOps < MaxOps
  /\ dragId' = id
  /\ Quiet
  /\ UNCHANGED <<docs, store, items, busyGlobal, busyIds, active, picker, dirty,
                 pick, dels, drops, nextId, nOps>>
  /\ UNCHANGED <<repls, gone, tvars, gvars, svars, pvars>>

\* reindexedAfterDrop with the target position corrected for the removal, as
\* an insertion before the target item would need
reindexedAfterDropBefore(cur, drag, over) ==
  LET from == findIndex(cur, drag)
      to == findIndex(cur, over)
      moved == spliceRemoved(cur, from)
      rest == spliceRest(cur, from)
  IN reindex(IF moved = <<>> THEN rest
             ELSE spliceInsert(rest, IF from < to THEN to - 1 ELSE to, moved[1]))

\* the list onDrop computes from the list cur
reindexedAfterDrop(cur, drag, over) ==
  LET from == findIndex(cur, drag)
      to == findIndex(cur, over)
      moved == spliceRemoved(cur, from)
      rest == spliceRest(cur, from)
  IN reindex(IF moved = <<>> THEN rest ELSE spliceInsert(rest, to, moved[1]))

\* onDrop={() => !isUploading && onDrop(it.id)} up to its await
onDrop(overId) ==
  /\ ~picker
  /\ overId \in IdsOf(items)
  /\ ~isUploading
  /\ ~(dragId = NoId \/ dragId = overId)
  /\ StartOp
  /\ LET reindexed == reindexedAfterDrop(items, dragId, overId)
     IN /\ items' = reindexed
        /\ drops' = drops \cup {[tag |-> freeTag(drops), list |-> reindexed]}
  /\ Quiet
  /\ UNCHANGED <<docs, store, busyGlobal, busyIds, dragId, active, picker,
                 dirty, pick, dels, nextId>>
  /\ UNCHANGED <<repls, gone, tvars, gvars, svars, pvars>>

\* dropCommit with a batch that is not atomic: the failing commit has
\* written its first entry
dropCommitPartial(op, ok) ==
  /\ op \in drops
  /\ IF ok
     THEN /\ docs' = batchSetIndex(docs, op.list)
          /\ dirty' = (dirty \/ op.list # <<>>)
          /\ Quiet
     ELSE /\ alert' = "Reorder failed."
          /\ docs' = batchSetIndex(docs, SubSeq(op.list, 1, 1))
          /\ dirty' = TRUE
  /\ dragId' = NoId
  /\ drops' = drops \ {op}
  /\ UNCHANGED <<store, items, busyGlobal, busyIds, active, picker, pick, dels,
                 nextId, nOps>>
  /\ UNCHANGED <<repls, gone, tvars, gvars, svars, pvars>>

\* await batch.commit() of onDrop, catch, finally
dropCommit(op, ok) ==
  /\ op \in drops
  /\ IF ok
     THEN /\ docs' = batchSetIndex(docs, op.list)
          /\ dirty' = (dirty \/ op.list # <<>>)
          /\ Quiet
     ELSE /\ alert' = "Reorder failed."
          /\ UNCHANGED <<docs, dirty>>
  /\ dragId' = NoId
  /\ drops' = drops \ {op}
  /\ UNCHANGED <<store, items, busyGlobal, busyIds, active, picker, pick, dels,
                 nextId, nOps>>
  /\ UNCHANGED <<repls, gone, tvars, gvars, svars, pvars>>

\* ---------------------------------------------------------- second session
\* The same editor open in a second browser: it shares the collection, the
\* store and the id generator (ids are random, hence distinct), and has its
\* own React state.  Only its snapshot listener and its append are modelled.
canAdd2 == Len(items2) < MAX_IMAGES

isUploading2 == active2 > 0 \/ busyGlobal2

\* the step of the second session alerts nothing
Quiet2 == alert2' = ""

\* onSnapshot callback of the second session: delivered when the query result
\* differs from the one it received last (nothing else sets its list)
onSnapshot2 ==
  /\ items2 # querySnapshot(docs)
  /\ items2' = querySnapshot(docs)
  /\ Quiet2
  /\ UNCHANGED <<busyGlobal2, active2, pick2>>
  /\ UNCHANGED <<evars, tvars, gvars, pvars>>

\* files.slice(0, slots).length in the second session
selectedCount2(nfiles) == Min(nfiles, Max(0, MAX_IMAGES - Len(items2)))

\* onPick of the second session up to its first await; the file input is
\* enabled (disabled={!canAdd || isUploading}) and the files are chosen at once
onPick2(nfiles) ==
  /\ pick2.pc = "idle"
  /\ canAdd2 /\ ~isUploading2
  /\ StartOp
  /\ nextId + selectedCount2(nfiles) - 1 <= MaxIds
  /\ busyGlobal2' = TRUE
  /\ pick2' = [pc |-> "transcode", L |-> Len(items2),
               n |-> selectedCount2(nfiles), i |-> 0, id |-> nextId]
  /\ nextId' = nextId + 1
  /\ Quiet2
  /\ UNCHANGED <<items2, active2>>
  /\ UNCHANGED <<docs, store, items, busyGlobal, busyIds, dragId, active,
                 picker, dirty, pick, dels, drops, repls, gone, alert>>
  /\ UNCHANGED <<tvars, gvars, pvars>>

\* catch + finally of onPick in the second session
pickCatch2 ==
  /\ alert2' = "Upload failed."
  /\ busyGlobal2' = FALSE
  /\ pick2' = idlePick

\* await makeOptimizedAndBlur(file), then setOverall(active + 1)
pickTranscode2(ok) ==
  /\ pick2.pc = "transcode"
  /\ IF ok
     THEN /\ active2' = active2 + 1
          /\ pick2' = [pick2 EXCEPT !.pc = "upload"]
          /\ Quiet2
          /\ UNCHANGED busyGlobal2
     ELSE /\ pickCatch2
          /\ UNCHANGED active2
  /\ UNCHANGED items2
  /\ UNCHANGED <<evars, tvars, gvars, pvars>>

\* the two upload tasks and getDownloadURL x2 in the second session
pickUpload2(ok, stored) ==
  /\ pick2.pc = "upload"
  /\ IF ok
     THEN /\ stored
          /\ active2' = Max(0, active2 - 1)
          /\ pick2' = [pick2 EXCEPT !.pc = "setdoc"]
          /\ Quiet2
          /\ UNCHANGED busyGlobal2
     ELSE /\ pickCatch2
          /\ UNCHANGED active2
  /\ store' = IF stored THEN store \cup {pick2.id} ELSE store
  /\ UNCHANGED items2
  /\ UNCHANGED <<docs, items, busyGlobal, busyIds, dragId, active, picker,
                 dirty, pick, dels, drops, repls, gone, alert, nextId, nOps>>
  /\ UNCHANGED <<tvars, gvars, pvars>>

\* pickSetDoc2 with nextIndex taken from the collection at the time of the
\* write instead of the session's list
pickSetDoc2Remote(ok) ==
  /\ pick2.pc = "setdoc"
  /\ IF ok
     THEN /\ docs' = putDoc(docs, pick2.id, Cardinality(DOMAIN docs) + 1)
          /\ dirty' = TRUE
          /\ IF pick2.i + 1 < pick2.n
             THEN /\ pick2' = [pick2 EXCEPT !.pc = "transcode", !.i = @ + 1,
                                            !.id = nextId]
                  /\ nextId' = nextId + 1
                  /\ UNCHANGED busyGlobal2
             ELSE /\ pick2' = idlePick
                  /\ busyGlobal2' = FALSE
                  /\ UNCHANGED nextId
          /\ Quiet2
     ELSE /\ pickCatch2
          /\ UNCHANGED <<docs, dirty, nextId>>
  /\ UNCHANGED <<items2, active2>>
  /\ UNCHANGED <<store, items, busyGlobal, busyIds, dragId, active, picker,
                 pick, dels, drops, repls, gone, alert, nOps>>
  /\ UNCHANGED <<tvars, gvars, pvars>>

\* await setDoc(doc(db, "gallery", id), {index: nextIndex, ...}) in the second
\* session, next iteration; the first session's listener has a new result
pickSetDoc2(ok) ==
  /\ pick2.pc = "setdoc"
  /\ IF ok
     THEN /\ docs' = putDoc(docs, pick2.id, pick2.L + 1 + pick2.i)
          /\ dirty' = TRUE
          /\ IF pick2.i + 1 < pick2.n
             THEN /\ pick2' = [pick2 EXCEPT !.pc = "transcode", !.i = @ + 1,
                                            !.id = nextId]
                  /\ nextId' = nextId + 1
                  /\ UNCHANGED busyGlobal2
             ELSE /\ pick2' = idlePick
                  /\ busyGlobal2' = FALSE
                  /\ UNCHANGED nextId
          /\ Quiet2
     ELSE /\ pickCatch2
          /\ UNCHANGED <<docs, dirty, nextId>>
  /\ UNCHANGED <<items2, active2>>
  /\ UNCHANGED <<store, items, busyGlobal, busyIds, dragId, active, picker,
                 pick, dels, drops, repls, gone, alert, nOps>>
  /\ UNCHANGED <<tvars, gvars, pvars>>

\* ======================================================================
\* Invite / testimonial workflow
\* ======================================================================
MaxTokens == 1       \* invites created in one behaviour
MaxTabs == 2         \* browser tabs on the submission page
MaxTicks == 2        \* clock ticks in one behaviour
MaxLoads == 2        \* loads of the submission page in one behaviour
MaxRefresh == 2      \* invite snapshots delivered to the admin page

DAY_MS == 24 * 60 * 60 * 1000

\* the clock advances in steps of twelve hours
TickMs == DAY_MS \div 2

Tokens == 1..MaxTokens
NoToken == 0
Tabs == 1..MaxTabs

\* strings are sequences of characters; the ones typed into the forms
Texts == {<<>>, <<" ">>, <<" ", "a">>}

\* values passed to setStars (StarInput offers 1..5)
StarValues == {0, 1, 5, 6}

RECURSIVE trimStart(_)
trimStart(s) == IF s # <<>> /\ Head(s) = " " THEN trimStart(Tail(s)) ELSE s

RECURSIVE trimEnd(_)
trimEnd(s) ==
  IF s # <<>> /\ s[Len(s)] = " " THEN trimEnd(SubSeq(s, 1, Len(s) - 1)) ELSE s

\* String.prototype.trim
trim(s) == trimEnd(trimStart(s))

NullInvite == [expiresAt |-> 0, clientName |-> <<>>, event |-> <<>>]

\* useState initial values of TestimonialSubmit; found: the existence read of
\* the load effect succeeded and saw a testimonial
closedTab ==
  [pc |-> "closed", token |-> NoToken, loading |-> TRUE, hasInvite |-> FALSE,
   invite |-> NullInvite, error |-> "", alreadyUsed |-> FALSE,
   submitted |-> FALSE, stars |-> 5, description |-> <<>>,
   submitting |-> FALSE, expired |-> TRUE, found |-> FALSE]

idleCreate == [pc |-> "idle", token |-> NoToken, expiresAt |-> 0,
               event |-> <<>>, clientName |-> <<>>, avatarUrl |-> FALSE]

TIdle ==
  /\ now = 0
  /\ invites = <<>>
  /\ testimonials = <<>>
  /\ tabs = [tab \in Tabs |-> closedTab]
  /\ creating = idleCreate
  /\ statuses = <<>>
  /\ runs = {}
  /\ toast = ""
  /\ nextToken = 1
  /\ nLoads = 0
  /\ nRefresh = 0

\* the step shows no toast
NoToast == toast' = ""

\* Date.now() advances
tick ==
  /\ now < MaxTicks * TickMs
  /\ now' = now + TickMs
  /\ NoToast
  /\ UNCHANGED <<invites, testimonials, tabs, creating, statuses, runs,
                 nextToken, nLoads, nRefresh>>
  /\ UNCHANGED <<evars, gvars, svars, pvars>>

\* ------------------------------------------------------------ createInvite
\* createInvite up to its await; avatarUrl: an avatar upload has completed
createInvite(eventName, clientName, avatarUrl) ==
  /\ creating.pc = "idle"
  /\ nextToken <= MaxTokens
  /\ IF trim(eventName) = <<>> \/ trim(clientName) = <<>>
     THEN /\ toast' = "Event and Client name are required."
          /\ UNCHANGED creating
     ELSE IF ~avatarUrl
     THEN /\ toast' = "Client avatar is required."
          /\ UNCHANGED creating
     ELSE /\ creating' = [pc |-> "write", token |-> nextToken,
                          expiresAt |-> now + 24 * 60 * 60 * 1000,
                          event |-> trim(eventName),
                          clientName |-> trim(clientName),
                          avatarUrl |-> avatarUrl]
          /\ NoToast
  /\ UNCHANGED <<now, invites, testimonials, tabs, statuses, runs, nextToken,
                 nLoads, nRefresh>>
  /\ UNCHANGED <<evars, gvars, svars, pvars>>

\* the second createInvite of the file (the AdminTestimonials page), up to
\* its await: no avatar check, avatarUrl: avatarUrl || null; the message is
\* the one it gives to setErr
createInvite2(eventName, clientName, avatarUrl) ==
  /\ creating.pc = "idle"
  /\ nextToken <= MaxTokens
  /\ IF trim(eventName) = <<>> \/ trim(clientName) = <<>>
     THEN /\ toast' = "Event and Client name are required."
          /\ UNCHANGED creating
     ELSE /\ creating' = [pc |-> "write", token |-> nextToken,
                          expiresAt |-> now + 24 * 60 * 60 * 1000,
                          event |-> trim(eventName),
                          clientName |-> trim(clientName),
                          avatarUrl |-> avatarUrl]
          /\ NoToast
  /\ UNCHANGED <<now, invites, testimonials, tabs, statuses, runs, nextToken,
                 nLoads, nRefresh>>
  /\ UNCHANGED <<evars, gvars, svars, pvars>>

\* await setDoc(doc(db, "testimonialInvites", token), {...}); createdAt is the
\* server time of the write
createInviteWrite(ok) ==
  /\ creating.pc = "write"
  /\ IF ok
     THEN /\ invites' = [t \in (DOMAIN invites) \cup {creating.token} |->
                           IF t = creating.token
                           THEN [expiresAt |-> creating.expiresAt,
                                 createdAt |-> now,
                                 event |-> creating.event,
                                 clientName |-> creating.clientName,
                                 avatarUrl |-> creating.avatarUrl]
                           ELSE invites[t]]
          /\ nextToken' = nextToken + 1
          /\ toast' = "Invite created. Link expires in 24 hours."
     ELSE /\ toast' = "Failed to create invite"
          /\ UNCHANGED <<invites, nextToken>>
  /\ creating' = idleCreate
  /\ UNCHANGED <<now, testimonials, tabs, statuses, runs, nLoads, nRefresh>>
  /\ UNCHANGED <<evars, gvars, svars, pvars>>

\* ------------------------------------------------------- TestimonialSubmit
\* the useMemo over [invite]: evaluated when the invite is set
expired(hasInvite, invite, t) ==
  IF ~hasInvite THEN TRUE ELSE t >= invite.expiresAt

\* the form is rendered: none of the render guards returns
formShown(t) ==
  /\ ~t.loading
  /\ t.error = ""
  /\ ~t.submitted
  /\ ~(t.alreadyUsed \/ t.expired)

setTab(tab, t) == tabs' = [tabs EXCEPT ![tab] = t]

\* the page is opened (or reloaded) on /t/<token>: mount and the load effect
\* up to its first await
openPage(tab, token) ==
  /\ tabs[tab].pc \in {"closed", "ready"}
  /\ nLoads < MaxLoads
  /\ nLoads' = nLoads + 1
  /\ IF token = NoToken
     THEN setTab(tab, [closedTab EXCEPT !.pc = "ready",
                                        !.error = "This link is invalid.",
                                        !.loading = FALSE])
     ELSE setTab(tab, [closedTab EXCEPT !.pc = "getInvite", !.token = token])
  /\ NoToast
  /\ UNCHANGED <<now, invites, testimonials, creating, statuses, runs,
                 nextToken, nRefresh>>
  /\ UNCHANGED <<evars, gvars, svars, pvars>>

\* loadInvite without the invSnap.exists() check: setInvite(undefined)
loadInviteNoExists(tab, ok) ==
  LET t == tabs[tab]
  IN /\ t.pc = "getInvite"
     /\ IF ~ok
        THEN setTab(tab, [t EXCEPT !.pc = "ready", !.loading = FALSE,
                                   !.error = "Could not load invite."])
        ELSE IF t.token \notin DOMAIN invites
        THEN setTab(tab, [t EXCEPT !.pc = "getTestimonial"])
        ELSE LET inv == [expiresAt |-> invites[t.token].expiresAt,
                         clientName |-> invites[t.token].clientName,
                         event |-> invites[t.token].event]
             IN setTab(tab, [t EXCEPT !.pc = "getTestimonial",
                                      !.hasInvite = TRUE,
                                      !.invite = inv,
                                      !.expired = expired(TRUE, inv, now)])
     /\ NoToast
     /\ UNCHANGED <<now, invites, testimonials, creating, statuses, runs,
                    nextToken, nLoads, nRefresh>>
     /\ UNCHANGED <<evars, gvars, svars, pvars>>

\* await getDoc(doc(db, "testimonialInvites", token))
loadInvite(tab, ok) ==
  LET t == tabs[tab]
  IN /\ t.pc = "getInvite"
     /\ IF ~ok
        THEN setTab(tab, [t EXCEPT !.pc = "ready", !.loading = FALSE,
                                   !.error = "Could not load invite."])
        ELSE IF t.token \notin DOMAIN invites
        THEN setTab(tab, [t EXCEPT !.pc = "ready", !.loading = FALSE,
                                   !.error = "This link is invalid."])
        ELSE LET inv == [expiresAt |-> invites[t.token].expiresAt,
                         clientName |-> invites[t.token].clientName,
                         event |-> invites[t.token].event]
             IN setTab(tab, [t EXCEPT !.pc = "getTestimonial",
                                      !.hasInvite = TRUE,
                                      !.invite = inv,
                                      !.expired = expired(TRUE, inv, now)])
     /\ NoToast
     /\ UNCHANGED <<now, invites, testimonials, creating, statuses, runs,
                    nextToken, nLoads, nRefresh>>
     /\ UNCHANGED <<evars, gvars, svars, pvars>>

\* alreadyUsedAfter when the existence read is ignored
alreadyUsedNever(ok, exists) == FALSE

\* setAlreadyUsed(tSnap.exists()), setAlreadyUsed(false) in the catch
alreadyUsedAfter(ok, exists) == ok /\ exists

\* await getDoc(doc(db, "testimonials", token)), then finally
loadTestimonial(tab, ok) ==
  LET t == tabs[tab]
      exists == t.token \in DOMAIN testimonials
  IN /\ t.pc = "getTestimonial"
     /\ setTab(tab, [t EXCEPT !.pc = "ready", !.loading = FALSE,
                              !.alreadyUsed = alreadyUsedAfter(ok, exists),
                              !.found = (ok /\ exists)])
     /\ NoToast
     /\ UNCHANGED <<now, invites, testimonials, creating, statuses, runs,
                    nextToken, nLoads, nRefresh>>
     /\ UNCHANGED <<evars, gvars, svars, pvars>>

\* invalidInput with the rating bounds off by one
invalidInputLoose(fullName, event, description, stars) ==
  \/ fullName = <<>>
  \/ event = <<>>
  \/ trim(description) = <<>>
  \/ stars < 0
  \/ stars > 6

\* !fullName || !event || !description.trim() || stars < 1 || stars > 5
invalidInput(fullName, event, description, stars) ==
  \/ fullName = <<>>
  \/ event = <<>>
  \/ trim(description) = <<>>
  \/ stars < 1
  \/ stars > 5

\* the form is submitted with the rating n and the text d in its fields
\* (setStars, setDescription): onSubmit up to its await
onSubmit(tab, n, d) ==
  LET t == [tabs[tab] EXCEPT !.stars = n, !.description = d]
      fullName == trim(t.invite.clientName)
      event == trim(t.invite.event)
  IN /\ t.pc = "ready" /\ formShown(t)
     /\ IF t.expired \/ t.alreadyUsed
        THEN setTab(tab, [t EXCEPT !.error = "This link has already been used."])
        ELSE IF invalidInput(fullName, event, t.description, t.stars)
        THEN setTab(tab, [t EXCEPT !.error = "Please add a rating (1-5) and description."])
        ELSE setTab(tab, [t EXCEPT !.pc = "write", !.submitting = TRUE])
     /\ NoToast
     /\ UNCHANGED <<now, invites, testimonials, creating, statuses, runs,
                    nextToken, nLoads, nRefresh>>
     /\ UNCHANGED <<evars, gvars, svars, pvars>>

\* await setDoc(doc(db, "testimonials", token), {...}) without merge, then
\* catch and finally
submitWrite(tab, ok) ==
  LET t == tabs[tab]
  IN /\ t.pc = "write"
     /\ IF ok
        THEN /\ testimonials' =
                  [k \in (DOMAIN testimonials) \cup {t.token} |->
                     IF k = t.token
                     THEN [fullName |-> trim(t.invite.clientName),
                           event |-> trim(t.invite.event),
                           stars |-> t.stars,
                           description |-> trim(t.description),
                           by |-> tab]
                     ELSE testimonials[k]]
             /\ setTab(tab, [t EXCEPT !.pc = "ready", !.submitting = FALSE,
                                      !.submitted = TRUE, !.alreadyUsed = TRUE])
        ELSE /\ setTab(tab, [t EXCEPT !.pc = "ready", !.submitting = FALSE,
                    !.error = "Submission failed. This link may have already been used."])
             /\ UNCHANGED testimonials
     /\ NoToast
     /\ UNCHANGED <<now, invites, creating, statuses, runs, nextToken, nLoads,
                    nRefresh>>
     /\ UNCHANGED <<evars, gvars, svars, pvars>>

\* ------------------------------------------- AdminTestimonials status effect
\* isExpired with a strict comparison
isExpiredStrict(t, expMs) == t > expMs

\* const isExpired = Date.now() >= expMs
isExpired(t, expMs) == t >= expMs

\* the value a status check returns; ok: getDoc resolved
statusOf(ok, isDone, expd) ==
  IF ok
  THEN IF isDone THEN "done" ELSE IF expd THEN "expired" ELSE "pending"
  ELSE IF expd THEN "expired" ELSE "pending"

\* the onSnapshot callback of the invites query up to its await: the rows,
\* isExpired of every row, and one getDoc per row in flight; with no rows
\* Promise.all([]) resolves without a remote call and setStatuses({}) follows
\* at once
invitesSnapshot ==
  /\ nRefresh < MaxRefresh
  /\ nRefresh' = nRefresh + 1
  /\ IF DOMAIN invites = {}
     THEN /\ statuses' = <<>>
          /\ UNCHANGED runs
     ELSE /\ runs' = runs \cup
               {[seq |-> nRefresh + 1,
                 at |-> now,
                 rows |-> DOMAIN invites,
                 exp |-> [t \in DOMAIN invites |->
                            isExpired(now, invites[t].expiresAt)],
                 res |-> [t \in DOMAIN invites |-> ""],
                 read |-> [t \in DOMAIN invites |-> FALSE]]}
          /\ UNCHANGED statuses
  /\ NoToast
  /\ UNCHANGED <<now, invites, testimonials, tabs, creating, nextToken, nLoads>>
  /\ UNCHANGED <<evars, gvars, svars, pvars>>

\* await getDoc(doc(db, "testimonials", r.token)) of one row
statusRead(run, t, ok) ==
  /\ run \in runs
  /\ t \in run.rows /\ run.res[t] = ""
  /\ runs' = (runs \ {run}) \cup
       {[run EXCEPT !.res[t] = statusOf(ok, t \in DOMAIN testimonials, run.exp[t]),
                    !.read[t] = ok]}
  /\ NoToast
  /\ UNCHANGED <<now, invites, testimonials, tabs, creating, statuses,
                 nextToken, nLoads, nRefresh>>
  /\ UNCHANGED <<evars, gvars, svars, pvars>>

\* Promise.all resolved: setStatuses(Object.fromEntries(checks))
setStatuses(run) ==
  /\ run \in runs
  /\ \A t \in run.rows : run.res[t] # ""
  /\ statuses' = [t \in run.rows |->
                    [st |-> run.res[t], read |-> run.read[t], seq |-> run.seq]]
  /\ runs' = runs \ {run}
  /\ NoToast
  /\ UNCHANGED <<now, invites, testimonials, tabs, creating, nextToken,
                 nLoads, nRefresh>>
  /\ UNCHANGED <<evars, gvars, svars, pvars>>

\* ------------------------------------------------- route guard (guards.jsx)
MaxAuth == 3         \* auth state changes in one behaviour

\* the uids the identity service can report
Uids == {"admin", "guest"}

\* the values of VITE_ADMIN_UID: unset, or the uid of an account
AdminUidValues == {"", "admin", "guest"}

\* the children of the RequireAdmin route
AdminPages == {"profile", "testimonials", "carousel", "masonry"}

Routes == AdminPages \cup {"login"}

\* RequireAdmin: what the guard returns
RequireAdmin(l, u, cfg) ==
  IF l THEN "loader"
  ELSE IF u = "" THEN "navigate"
  ELSE IF cfg # "" /\ u # cfg THEN "403"
  ELSE "children"

\* the route after the router has rendered r (Navigate replaces the route)
routeAfter(r, l, u, cfg) ==
  IF r \in AdminPages /\ RequireAdmin(l, u, cfg) = "navigate" THEN "login" ELSE r

\* what is on screen after the router has rendered r
viewAfter(r, l, u, cfg) ==
  IF r \notin AdminPages THEN "login"
  ELSE IF RequireAdmin(l, u, cfg) = "navigate" THEN "login"
  ELSE IF RequireAdmin(l, u, cfg) = "children" THEN r
  ELSE RequireAdmin(l, u, cfg)

\* AuthProvider just mounted: loading, no user, any build, on the login route
AuthLoading ==
  /\ ADMIN_UID \in AdminUidValues
  /\ user = ""
  /\ loading = TRUE
  /\ route = "login"
  /\ view = viewAfter("login", TRUE, "", ADMIN_UID)
  /\ nAuth = 0

\* the administrator is signed in and is on page r
SignedIn(r) ==
  /\ ADMIN_UID = "admin"
  /\ user = "admin"
  /\ loading = FALSE
  /\ route = r
  /\ view = r
  /\ nAuth = 0

\* onAuthStateChanged callback: setUser(u || null); setLoading(false)
onAuthStateChanged(u) ==
  /\ nAuth < MaxAuth
  /\ nAuth' = nAuth + 1
  /\ user' = u
  /\ loading' = FALSE
  /\ route' = routeAfter(route, FALSE, u, ADMIN_UID)
  /\ view' = viewAfter(route, FALSE, u, ADMIN_UID)
  /\ UNCHANGED <<ADMIN_UID, file, optimizedBlob, tiny>>
  /\ UNCHANGED <<evars, tvars, svars, pvars>>

\* the router is sent to route r
navigate(r) ==
  /\ r # route
  /\ route' = routeAfter(r, loading, user, ADMIN_UID)
  /\ view' = viewAfter(r, loading, user, ADMIN_UID)
  /\ UNCHANGED <<ADMIN_UID, user, loading, nAuth, file, optimizedBlob, tiny>>
  /\ UNCHANGED <<evars, tvars, svars, pvars>>

\* ------------------------------------------- transcoder (Carousel.jsx 25-79)
OPT_MAX_DIM == 2400

TINY_DIM == 20

\* declared types, decoded edge lengths and byte sizes of the files tried
FileTypes == {"image/jpeg", "image/png", ""}

FileDims == {1, 20, 21, 41, 2200, 2201, 2400, 2401, 4801}

FileSizes == {0, (5 * 1024 * 1024) \div 2, (5 * 1024 * 1024) \div 2 + 1}

Files == [type : FileTypes, size : FileSizes, width : FileDims, height : FileDims]

NoFile == [type |-> "", size |-> 0, width |-> 1, height |-> 1]

NoBlob == [kind |-> "none", type |-> "", width |-> 0, height |-> 0]

NoCanvas == [width |-> 0, height |-> 0]

\* no file has been handed to the transcoder
NoTranscode == file = NoFile /\ optimizedBlob = NoBlob /\ tiny = NoCanvas

\* Math.round(a / b) for a >= 0, b > 0
roundDiv(a, b) == (2 * a + b) \div (2 * b)

\* shouldSkipOptimization with a strict size limit
shouldSkipOptimizationStrict(f, imgWidth, imgHeight) ==
  /\ f.type = "image/jpeg"
  /\ Max(imgWidth, imgHeight) <= 2200
  /\ 2 * f.size < 5 * 1024 * 1024

\* file?.type === "image/jpeg" && longest <= 2200 && file.size <= 2.5 * 1024 * 1024
shouldSkipOptimization(f, imgWidth, imgHeight) ==
  /\ f.type = "image/jpeg"
  /\ Max(imgWidth, imgHeight) <= 2200
  /\ 2 * f.size <= 5 * 1024 * 1024

\* drawToCanvas without the min(1, ...) in the scale
drawToCanvasUpscale(width, height, maxDim) ==
  LET longest == Max(width, height)
      scaled(e) == roundDiv(e * maxDim, longest)
  IN [width |-> Max(1, scaled(width)), height |-> Max(1, scaled(height))]

\* the canvas size drawToCanvas draws to: scale = min(1, maxDim / longest),
\* each edge max(1, round(edge * scale))
drawToCanvas(width, height, maxDim) ==
  LET longest == Max(width, height)
      scaled(e) == IF longest <= maxDim THEN e ELSE roundDiv(e * maxDim, longest)
  IN [width |-> Max(1, scaled(width)), height |-> Max(1, scaled(height))]

\* makeOptimizedAndBlur: the optimizedBlob it returns for file and the canvas
\* of the placeholder
makeOptimizedAndBlur ==
  /\ optimizedBlob.kind = "none"
  /\ optimizedBlob' =
       IF shouldSkipOptimization(file, file.width, file.height)
       THEN [kind |-> "file", type |-> file.type,
             width |-> file.width, height |-> file.height]
       ELSE LET c == drawToCanvas(file.width, file.height, OPT_MAX_DIM)
            IN [kind |-> "encoded", type |-> "image/jpeg",
                width |-> c.width, height |-> c.height]
  /\ tiny' = drawToCanvas(file.width, file.height, TINY_DIM)
  /\ UNCHANGED <<ADMIN_UID, user, loading, route, view, nAuth, file>>
  /\ UNCHANGED <<evars, tvars, svars, pvars>>

\* ------------------------------------------------- public page and cropper
\* CarouselSection is mounted: the effect calls getDocs
mountCarouselSection ==
  /\ carousel.pc = "unmounted"
  /\ carousel' = [carousel EXCEPT !.pc = "getDocs"]
  /\ UNCHANGED <<masonry, cropper, unhandled>>
  /\ UNCHANGED <<evars, tvars, gvars, svars>>

\* await getDocs(query(gallery, orderBy index, limit 5)) of CarouselSection:
\* the async function has no try, so a rejection is the rejection of a
\* promise nobody handles
carouselGetDocs(ok) ==
  /\ carousel.pc = "getDocs"
  /\ IF ok
     THEN /\ carousel' = [pc |-> "done", items |-> querySnapshot(docs)]
          /\ UNCHANGED unhandled
     ELSE /\ carousel' = [carousel EXCEPT !.pc = "done"]
          /\ unhandled' = unhandled \cup {"CarouselSection"}
  /\ UNCHANGED <<masonry, cropper>>
  /\ UNCHANGED <<evars, tvars, gvars, svars>>

\* MasonrySection is mounted: setIsLoading(true), getDocs
mountMasonrySection ==
  /\ masonry.pc = "unmounted"
  /\ masonry' = [masonry EXCEPT !.pc = "getDocs", !.isLoading = TRUE]
  /\ UNCHANGED <<carousel, cropper, unhandled>>
  /\ UNCHANGED <<evars, tvars, gvars, svars>>

\* await getDocs(q) of MasonrySection, catch (console.error), finally
masonryGetDocs(ok) ==
  /\ masonry.pc = "getDocs"
  /\ masonry' = [pc |-> "done", isLoading |-> FALSE, images |-> ok]
  /\ UNCHANGED <<carousel, cropper, unhandled>>
  /\ UNCHANGED <<evars, tvars, gvars, svars>>

\* handleChooseAvatar on the invite form of page definition p (the file holds
\* two definitions of the page): the cropper opens
handleChooseAvatar(p) ==
  /\ cropper.pc = "closed"
  /\ cropper' = [pc |-> "open", page |-> p]
  /\ NoToast
  /\ UNCHANGED <<carousel, masonry, unhandled>>
  /\ UNCHANGED <<now, invites, testimonials, tabs, creating, statuses, runs,
                 nextToken, nLoads, nRefresh>>
  /\ UNCHANGED <<evars, gvars, svars>>

\* handleDone: getCroppedImg resolved, onCropped(blob) is called (not awaited)
\* and runs up to its await uploadAvatarBlob
handleDone ==
  /\ cropper.pc = "open"
  /\ cropper' = [cropper EXCEPT !.pc = "upload"]
  /\ NoToast
  /\ UNCHANGED <<carousel, masonry, unhandled>>
  /\ UNCHANGED <<now, invites, testimonials, tabs, creating, statuses, runs,
                 nextToken, nLoads, nRefresh>>
  /\ UNCHANGED <<evars, gvars, svars>>

\* await uploadAvatarBlob(blob, token) in onCropped: the first definition of
\* the page wraps it in try/catch, the second does not
onCropped(ok) ==
  /\ cropper.pc = "upload"
  /\ IF ok
     THEN /\ cropper' = [cropper EXCEPT !.pc = "closed"]
          /\ toast' = IF cropper.page = 1 THEN "Photo updated" ELSE ""
          /\ UNCHANGED unhandled
     ELSE /\ cropper' = [cropper EXCEPT !.pc = "open"]
          /\ toast' = IF cropper.page = 1 THEN "Failed to upload photo" ELSE ""
          /\ unhandled' = IF cropper.page = 1 THEN unhandled
                          ELSE unhandled \cup {"onCropped"}
  /\ UNCHANGED <<carousel, masonry>>
  /\ UNCHANGED <<now, invites, testimonials, tabs, creating, statuses, runs,
                 nextToken, nLoads, nRefresh>>
  /\ UNCHANGED <<evars, gvars, svars>>

\* the visitors' pages and the invite creation; the admin's status list is
\* not mounted
TNext ==
  \/ tick
  \/ \E e \in Texts, c \in Texts, a \in BOOLEAN : createInvite(e, c, a)
  \/ \E ok \in BOOLEAN : createInviteWrite(ok)
  \/ \E tab \in Tabs, token \in Tokens \cup {NoToken} : openPage(tab, token)
  \/ \E tab \in Tabs, ok \in BOOLEAN : loadInvite(tab, ok)
  \/ \E tab \in Tabs, ok \in BOOLEAN : loadTestimonial(tab, ok)
  \/ \E tab \in Tabs, n \in StarValues, d \in Texts : onSubmit(tab, n, d)
  \/ \E tab \in Tabs, ok \in BOOLEAN : submitWrite(tab, ok)

\* the submission pages start closed, nothing is stored
TInit == Mounted(0) /\ NoOther /\ NoPublic /\ TIdle /\ SignedIn("testimonials") /\ NoTranscode

SpecT == TInit /\ [][TNext]_vars

\* the admin's status list next to one visitor page (the first tab)
ANext ==
  \/ tick
  \/ \E e \in Texts, c \in Texts, a \in BOOLEAN : createInvite(e, c, a)
  \/ \E ok \in BOOLEAN : createInviteWrite(ok)
  \/ \E token \in Tokens \cup {NoToken} : openPage(1, token)
  \/ \E ok \in BOOLEAN : loadInvite(1, ok)
  \/ \E ok \in BOOLEAN : loadTestimonial(1, ok)
  \/ \E n \in StarValues, d \in Texts : onSubmit(1, n, d)
  \/ \E ok \in BOOLEAN : submitWrite(1, ok)
  \/ invitesSnapshot
  \/ \E run \in runs, t \in Tokens, ok \in BOOLEAN : statusRead(run, t, ok)
  \/ \E run \in runs : setStatuses(run)

SpecA == TInit /\ [][ANext]_vars

\* the admin's invite form, in either of its two definitions, and status list
INext ==
  \/ tick
  \/ \E e \in Texts, c \in Texts, a \in BOOLEAN : createInvite(e, c, a)
  \/ \E e \in Texts, c \in Texts, a \in BOOLEAN : createInvite2(e, c, a)
  \/ \E ok \in BOOLEAN : createInviteWrite(ok)
  \/ invitesSnapshot
  \/ \E run \in runs, t \in Tokens, ok \in BOOLEAN : statusRead(run, t, ok)
  \/ \E run \in runs : setStatuses(run)

SpecI == TInit /\ [][INext]_vars

\* ------------------------------------------------------------------- Next
ENext ==
  \/ onSnapshot
  \/ openPicker
  \/ cancelPicker
  \/ \E nfiles \in 1..MaxFiles : onPick(nfiles)
  \/ \E ok \in BOOLEAN : pickTranscode(ok)
  \/ \E ok \in BOOLEAN, stored \in BOOLEAN : pickUpload(ok, stored)
  \/ \E ok \in BOOLEAN : pickSetDoc(ok)
  \/ \E id \in IdSet : onDelete(id)
  \/ \E op \in dels, ok \in BOOLEAN, kept \in BOOLEAN : deleteFolder(op, ok, kept)
  \/ \E op \in dels, ok \in BOOLEAN : delDeleteDoc(op, ok)
  \/ \E op \in dels, ok \in BOOLEAN : delBatchCommit(op, ok)
  \/ \E id \in IdSet : onDragStart(id)
  \/ \E id \in IdSet : onDrop(id)
  \/ \E op \in drops, ok \in BOOLEAN : dropCommit(op, ok)
  \/ \E id \in IdSet : onReplaceFile(id)
  \/ \E op \in repls, ok \in BOOLEAN : replTranscode(op, ok)
  \/ \E op \in repls, ok \in BOOLEAN, stored \in BOOLEAN : replUpload(op, ok, stored)
  \/ \E op \in repls, ok \in BOOLEAN : replSetDoc(op, ok)

\* an editor mounted on a collection of at most InitMax documents
Init == EInit /\ NoOther /\ NoPublic /\ TIdle /\ SignedIn("carousel") /\ NoTranscode

\* an editor mounted on a full collection
InitFull == FullInit /\ NoOther /\ NoPublic /\ TIdle /\ SignedIn("carousel") /\ NoTranscode

Spec == Init /\ [][ENext]_vars

\* ------------------------------------------------------ other specifications
\* one gesture at a time: the admin starts a handler only when no handler is
\* running and the list on screen is the last query result
SeqNext ==
  \/ onSnapshot
  \/ (Quiescent /\ openPicker)
  \/ cancelPicker
  \/ \E nfiles \in 1..MaxFiles : onPick(nfiles)
  \/ \E ok \in BOOLEAN : pickTranscode(ok)
  \/ \E ok \in BOOLEAN, stored \in BOOLEAN : pickUpload(ok, stored)
  \/ \E ok \in BOOLEAN : pickSetDoc(ok)
  \/ \E id \in IdSet : (Quiescent /\ onDelete(id))
  \/ \E op \in dels, ok \in BOOLEAN, kept \in BOOLEAN : deleteFolder(op, ok, kept)
  \/ \E op \in dels, ok \in BOOLEAN : delDeleteDoc(op, ok)
  \/ \E op \in dels, ok \in BOOLEAN : delBatchCommit(op, ok)
  \/ \E id \in IdSet : (Quiescent /\ onDragStart(id))
  \/ \E id \in IdSet : (Quiescent /\ onDrop(id))
  \/ \E op \in drops, ok \in BOOLEAN : dropCommit(op, ok)
  \/ \E id \in IdSet : (Quiescent /\ onReplaceFile(id))
  \/ \E op \in repls, ok \in BOOLEAN : replTranscode(op, ok)
  \/ \E op \in repls, ok \in BOOLEAN, stored \in BOOLEAN : replUpload(op, ok, stored)
  \/ \E op \in repls, ok \in BOOLEAN : replSetDoc(op, ok)

SpecSeq == Init /\ [][SeqNext]_vars

SpecFull == InitFull /\ [][ENext]_vars

\* the router and the auth context, whatever the build configuration
GInit == Mounted(0) /\ NoOther /\ NoPublic /\ TIdle /\ AuthLoading /\ NoTranscode

GNext ==
  \/ \E u \in Uids \cup {""} : onAuthStateChanged(u)
  \/ \E r \in Routes : navigate(r)

SpecG == GInit /\ [][GNext]_vars

\* the transcoder applied to one file
XInit ==
  /\ Mounted(0) /\ NoOther /\ NoPublic /\ TIdle /\ SignedIn("carousel")
  /\ file \in Files
  /\ optimizedBlob = NoBlob
  /\ tiny = NoCanvas

XNext == makeOptimizedAndBlur

SpecX == XInit /\ [][XNext]_vars

\* two sessions on the same collection, each appending
WInit == EInit /\ Mounted2 /\ NoPublic /\ TIdle /\ SignedIn("carousel") /\ NoTranscode

WNext ==
  \/ onSnapshot
  \/ openPicker
  \/ cancelPicker
  \/ \E nfiles \in 1..MaxFiles : onPick(nfiles)
  \/ \E ok \in BOOLEAN : pickTranscode(ok)
  \/ \E ok \in BOOLEAN, stored \in BOOLEAN : pickUpload(ok, stored)
  \/ \E ok \in BOOLEAN : pickSetDoc(ok)
  \/ onSnapshot2
  \/ \E nfiles \in 1..MaxFiles : onPick2(nfiles)
  \/ \E ok \in BOOLEAN : pickTranscode2(ok)
  \/ \E ok \in BOOLEAN, stored \in BOOLEAN : pickUpload2(ok, stored)
  \/ \E ok \in BOOLEAN : pickSetDoc2(ok)

SpecW == WInit /\ [][WNext]_vars

\* the public page's two sections and the avatar cropper of the invite form
PNext ==
  \/ mountCarouselSection
  \/ \E ok \in BOOLEAN : carouselGetDocs(ok)
  \/ mountMasonrySection
  \/ \E ok \in BOOLEAN : masonryGetDocs(ok)
  \/ \E p \in {1, 2} : handleChooseAvatar(p)
  \/ handleDone
  \/ \E ok \in BOOLEAN : onCropped(ok)

SpecP == Init /\ [][PNext]_vars

\* ------------------------------------------------------------------ claims
indexSet(d) == {d[id].index : id \in DOMAIN d}

\* C1: index density.  Whenever no handler is running and the last snapshot
\* has been delivered, the index values of the N documents of the collection
\* are exactly 1..N, and so are those of the list on screen.
C1_IndexDensity ==
  Quiescent =>
    /\ indexSet(docs) = 1..Cardinality(DOMAIN docs)
    /\ \A k \in 1..Len(items) : items[k].index = k

\* C2: capacity.  A record write of onPick never leaves more than MAX_IMAGES
\* documents in the collection, and an onPick on a list that is at capacity
\* writes nothing, starts nothing and alerts that the gallery is full.
C2_Capacity ==
  [][/\ (pick.pc = "setdoc" /\ docs' # docs)
          => Cardinality(DOMAIN docs') <= MAX_IMAGES
     /\ (picker /\ ~picker' /\ nOps' # nOps /\ Len(items) >= MAX_IMAGES)
          => (docs' = docs /\ store' = store /\ pick' = pick
              /\ alert' = "Gallery is full")]_vars

\* the 0-based position of id in s
posOf(s, id) == (CHOOSE k \in 1..Len(s) : s[k].id = id) - 1

\* the ids of s without the element at 0-based position p
idsWithout(s, p) ==
  [k \in 1..(Len(s) - 1) |-> IF k <= p THEN s[k].id ELSE s[k + 1].id]

\* C3: reorder correctness.  Dropping the item at position i on the item at
\* position j # i puts the dragged item at position j, keeps the order of the
\* other items, gives every item index = position + 1, and the batch that
\* commits writes exactly these indices to exactly these ids.
C3_ReorderCorrect ==
  [][/\ \A over \in IdSet :
          (onDrop(over) /\ dragId \in IdsOf(items)) =>
             LET i == posOf(items, dragId)
                 j == posOf(items, over)
             IN /\ i # j
                /\ Len(items') = Len(items)
                /\ items'[j + 1].id = dragId
                /\ idsWithout(items', j) = idsWithout(items, i)
                /\ \A k \in 1..Len(items') : items'[k].index = k
                /\ \E op \in drops' \ drops : op.list = items'
     /\ \A op \in drops :
          dropCommit(op, TRUE) =>
             /\ \A k \in 1..Len(op.list) :
                    /\ op.list[k].id \in DOMAIN docs'
                    /\ docs'[op.list[k].id].index = k
             /\ \A id \in DOMAIN docs' :
                    id \notin IdsOf(op.list) => (id \in DOMAIN docs /\ docs'[id] = docs[id])
    ]_vars

\* C3 witness: a committed reorder moved document 1 from position 0 to
\* position 2 and the list on screen shows the committed order
C3_Witness ==
  /\ drops = {} /\ ~dirty
  /\ 1 \in DOMAIN docs /\ docs[1].index = 3
  /\ Len(items) >= 3 /\ items[3].id = 1

deleteFailed == alert' = "Delete failed. Restoring previous state."

\* C4: delete rollback.  onDelete remembers the list that was on screen when
\* it was called, and when one of its persistence steps fails the list on
\* screen after the failure handler is that list again.
C4_DeleteRollback ==
  [][/\ \A id \in IdSet :
          onDelete(id) => \E op \in dels' \ dels : op.id = id /\ op.prev = items
     /\ \A op \in dels :
          (op \notin dels' /\ deleteFailed) => items' = op.prev
    ]_vars

\* C4 witness: a delete failed at its reindex batch; the list on screen shows
\* again an item whose document is already deleted
C4_Witness ==
  /\ alert = "Delete failed. Restoring previous state."
  /\ \E id \in IdsOf(items) : id \notin DOMAIN docs /\ id \notin busyIds
  /\ \A k \in 1..Len(items) : items[k].index = k

\* C5: a delete that reports failure has left the remote untouched: it has
\* deleted no storage object and no document.
C5_FailedDeleteLeavesRemote ==
  [][\A op \in dels : (op \notin dels' /\ deleteFailed) => ~op.touched]_vars

usedMsg == "This link has already been used."

\* tab completes a successful write in this step
wrote(tab) == tabs[tab].pc = "write" /\ tabs'[tab].submitted

\* tab issues its setDoc in this step
issuesWrite(tab) == tabs[tab].pc # "write" /\ tabs'[tab].pc = "write"

C7_ExpiredCannotSubmit ==
  [][\A tab \in Tabs, n \in StarValues, d \in Texts :
       (/\ onSubmit(tab, n, d)
        /\ tabs[tab].token \in DOMAIN invites
        /\ now >= invites[tabs[tab].token].expiresAt)
          => (tabs'[tab].error = usedMsg /\ ~issuesWrite(tab))
    ]_vars

\* the status check of row t of run returns st in this step
returned(run, t, st) ==
  \E r2 \in runs' : r2.seq = run.seq /\ r2.res[t] = st

\* C8: once an invite is displayed as done (expired) by a derivation whose
\* existence read succeeded, every status check of that invite made
\* afterwards for a later snapshot, its read succeeding, returns done
\* (expired).
C8_TerminalStatuses ==
  [][\A run \in runs, t \in DOMAIN statuses :
       (/\ statusRead(run, t, TRUE)
        /\ statuses[t].read
        /\ run.seq > statuses[t].seq)
          => /\ statuses[t].st = "done" => returned(run, t, "done")
             /\ statuses[t].st = "expired" => returned(run, t, "expired")
    ]_vars

\* the status the claim assigns
claimedStatus(exists, t, expiresAt) ==
  IF exists THEN "done" ELSE IF t >= expiresAt THEN "expired" ELSE "pending"

\* C9 as stated: every status check returns done if a testimonial exists,
\* else expired if now >= expiresAt, else pending, now being the time of the
\* snapshot callback.
C9_StatusDerivation ==
  [][\A run \in runs, t \in Tokens, ok \in BOOLEAN :
       statusRead(run, t, ok)
         => returned(run, t, claimedStatus(t \in DOMAIN testimonials, run.at,
                                           invites[t].expiresAt))
    ]_vars

\* C9 amended: that holds when the existence read succeeds; when the read
\* fails the check returns expired if now >= expiresAt and pending otherwise,
\* even if a testimonial exists.
C9_StatusDerivationRead ==
  [][\A run \in runs, t \in Tokens, ok \in BOOLEAN :
       statusRead(run, t, ok)
         => returned(run, t, claimedStatus(ok /\ t \in DOMAIN testimonials,
                                           run.at, invites[t].expiresAt))
    ]_vars

\* C9 witness: the statuses on screen show an invite as expired that was
\* checked exactly at its deadline, its existence read having succeeded
C9_Witness ==
  \E t \in DOMAIN statuses :
    /\ statuses[t].st = "expired" /\ statuses[t].read
    /\ now = invites[t].expiresAt
    /\ t \notin DOMAIN testimonials

blank(d) == \A k \in 1..Len(d) : d[k] = " "

\* C10: a submission with a rating outside 1..5 or a blank description is
\* rejected in onSubmit, which issues no write and changes no record; with a
\* valid, unexpired, unused invite and a non-blank description the ratings 1
\* to 5 are accepted, and the write stores the submitted rating.
C10_ValidationBeforeWrite ==
  [][\A tab \in Tabs :
       /\ \A n \in StarValues, d \in Texts :
            onSubmit(tab, n, d) =>
              /\ testimonials' = testimonials /\ invites' = invites
              /\ (n < 1 \/ n > 5 \/ blank(d))
                   => (~issuesWrite(tab) /\ tabs'[tab].error # "")
              /\ (/\ n >= 1 /\ n <= 5 /\ ~blank(d)
                  /\ tabs[tab].token \in DOMAIN invites
                  /\ now < invites[tabs[tab].token].expiresAt
                  /\ tabs[tab].token \notin DOMAIN testimonials)
                   => (issuesWrite(tab) /\ tabs'[tab].stars = n)
       /\ wrote(tab) =>
            /\ testimonials'[tabs[tab].token].stars = tabs[tab].stars
            /\ tabs[tab].stars \in 1..5
            /\ testimonials'[tabs[tab].token].description # <<>>
    ]_vars

\* C10 witness: a submission with rating 6 was rejected by the validation
\* and nothing was written
C10_Witness ==
  \E tab \in Tabs :
    /\ tabs[tab].error = "Please add a rating (1-5) and description."
    /\ tabs[tab].stars = 6
    /\ ~blank(tabs[tab].description)
    /\ testimonials = <<>>

\* the input satisfies the three conditions of the skip rule
modest(f) ==
  /\ f.type = "image/jpeg"
  /\ Max(f.width, f.height) <= 2200
  /\ f.size <= 2621440

\* C11: the optimized output is the input file itself exactly when the type
\* is image/jpeg, the longer edge is at most 2200 and the size is at most
\* 2621440 bytes; every other input is re-encoded as JPEG with a longer edge
\* of at most 2400.
C11_SkipRule ==
  optimizedBlob.kind # "none" =>
    /\ optimizedBlob.kind = "file" <=> modest(file)
    /\ optimizedBlob.kind = "file" =>
         /\ optimizedBlob.type = file.type
         /\ optimizedBlob.width = file.width /\ optimizedBlob.height = file.height
    /\ ~modest(file) =>
         /\ optimizedBlob.kind = "encoded"
         /\ optimizedBlob.type = "image/jpeg"
         /\ Max(optimizedBlob.width, optimizedBlob.height) <= 2400

\* C11 witness: a JPEG on both boundaries (longer edge 2200, 2621440 bytes)
\* was returned as it is
C11_Witness ==
  /\ optimizedBlob.kind = "file"
  /\ file.size = 2621440
  /\ Max(file.width, file.height) = 2200

\* C12: an admin page is on screen only when the auth state has loaded and
\* the signed-in uid is the configured administrator uid; with no user the
\* router is on the login page, and any other signed-in uid on an admin route
\* sees the 403 message; for every value of VITE_ADMIN_UID.
C12_AdminOnly ==
  /\ view \in AdminPages => (~loading /\ user # "" /\ user = ADMIN_UID)
  /\ (~loading /\ user = "") => (route = "login" /\ view = "login")
  /\ (~loading /\ user # "" /\ user # ADMIN_UID /\ route \in AdminPages)
       => view = "403"

\* C13: once a delete of an item has run to its end without reporting a
\* failure, the collection holds no record with that id and the store holds
\* no object under gallery/<id>/, in that state and in every later one.
C13_DeletedDestroyed ==
  \A id \in gone : id \notin DOMAIN docs /\ id \notin store

\* the createInvite handler runs in this step with these form values
createInviteStep(e, c, a) == createInvite(e, c, a) \/ createInvite2(e, c, a)

\* C14: an invite record is written only with event and clientName non-empty
\* after trimming and with an avatar URL; when one of them is missing,
\* createInvite reports the error and starts no write.
C14_InvitePreconditions ==
  [][/\ \A t \in (DOMAIN invites') \ (DOMAIN invites) :
          /\ invites'[t].event # <<>> /\ invites'[t].clientName # <<>>
          /\ invites'[t].avatarUrl
     /\ \A e \in Texts, c \in Texts, a \in BOOLEAN :
          (createInviteStep(e, c, a) /\ (blank(e) \/ blank(c) \/ ~a))
             => (creating'.pc = "idle" /\ toast' # "" /\ invites' = invites)
    ]_vars

\* C15: a snapshot delivery sets the local list to the query result, and
\* once a snapshot has been delivered no step sets the local list to a value
\* computed from a list older than that snapshot: a rollback of a delete
\* never restores a list captured before a snapshot was delivered.
C15_LatestSnapshotWins ==
  [][/\ (dirty /\ ~dirty') => items' = querySnapshot(docs)
     /\ \A op \in dels :
          (op \notin dels' /\ deleteFailed /\ op.stale) => items' # op.prev
    ]_vars

\* C16: when a delete has failed and been rolled back, and then no handler
\* is running and no snapshot is outstanding, the list on screen is the
\* query result of the collection.
C16_ConvergesAfterFailedDelete ==
  [][\A op \in dels :
       (op \notin dels' /\ deleteFailed /\ Quiescent')
          => items' = querySnapshot(docs')
    ]_vars

\* the id of the k-th file (k = 0, 1, ...) of the running append
fileId(k) == pick.id - pick.i + k

\* C17: the k-th file of an append started on a list of length L is written
\* with index L + 1 + k, and only when the records of the files before it
\* have been written with the indices L + 1, ..., L + k: the indices of one
\* batch increase strictly and lie after the end of the list the append
\* started on.
C17_AppendSequential ==
  [][(pick.pc = "setdoc" /\ pick.id \in DOMAIN docs' /\ pick.id \notin DOMAIN docs)
       => /\ docs'[pick.id].index = pick.L + 1 + pick.i
          /\ docs'[pick.id].index > pick.L
          /\ \A k \in 0..(pick.i - 1) :
               /\ fileId(k) \in DOMAIN docs
               /\ docs[fileId(k)].index = pick.L + 1 + k
               /\ docs[fileId(k)].index < docs'[pick.id].index
    ]_vars

\* C17 witness: the first file of a batch has been written with index L + 1
\* and the second file is being processed
C17_Witness ==
  /\ pick.pc = "setdoc"
  /\ pick.i = 1
  /\ fileId(0) \in DOMAIN docs
  /\ docs[fileId(0)].index = pick.L + 1

uploadFailed == pick.pc # "idle" /\ alert' = "Upload failed."

\* C18: when the transcoding, the upload or the record write of the k-th file
\* fails, that step writes no record, the append ends (no later file is
\* processed), the records of the files before k remain, "Upload failed." is
\* reported by that step and busyGlobal is cleared.
C18_FailingFileStopsBatch ==
  [][/\ \A stored \in BOOLEAN :
          (pickTranscode(FALSE) \/ pickUpload(FALSE, stored) \/ pickSetDoc(FALSE))
             => uploadFailed
     /\ uploadFailed =>
          /\ docs' = docs
          /\ pick.id \notin DOMAIN docs'
          /\ pick' = idlePick
          /\ ~busyGlobal'
          /\ \A k \in 0..(pick.i - 1) :
               fileId(k) \in DOMAIN docs' /\ docs'[fileId(k)].index = pick.L + 1 + k
    ]_vars

\* C18 witness: the second file of a batch has failed; the record of the
\* first file is there, none for the second, and busyGlobal is cleared
C18_Witness ==
  /\ alert = "Upload failed."
  /\ pick = idlePick /\ ~busyGlobal
  /\ nextId - 2 > InitMax
  /\ (nextId - 2) \in DOMAIN docs
  /\ (nextId - 1) \notin DOMAIN docs

\* C19: every step of a replace, failing or not, leaves the number of
\* records, the index of the replaced item and every other record as they
\* were.
C19_ReplaceKeepsIndex ==
  [][\A op \in repls :
       (op \notin repls')
          => /\ DOMAIN docs' = DOMAIN docs
             /\ \A x \in DOMAIN docs :
                  /\ docs'[x].index = docs[x].index
                  /\ x # op.id => docs'[x] = docs[x]
    ]_vars

\* x comes before y in the collection ordered by index; records with the
\* same index are ordered by their ids
comesBefore(d, x, y) ==
  d[x].index < d[y].index \/ (d[x].index = d[y].index /\ x < y)

\* C20: a step of an append, a replace or a delete (any step that is not the
\* commit of a reorder) keeps the relative order of any two records that
\* exist before and after it, and a record written by an append gets an index
\* greater than that of every existing record (with an equal index its place
\* would depend on the random ids).
C20_OnlyReorderChangesOrder ==
  [][/\ drops' = drops =>
          \A x, y \in (DOMAIN docs) \cap (DOMAIN docs') :
            (x # y /\ docs[x].index # 0 /\ docs[y].index # 0)
               => (comesBefore(docs, x, y) <=> comesBefore(docs', x, y))
     /\ (pick.pc = "setdoc" /\ pick.id \in DOMAIN docs')
          => \A x \in DOMAIN docs : docs[x].index < docs'[pick.id].index
    ]_vars

reorderFailed == alert' = "Reorder failed."

\* C21: the commit of a reorder is all-or-nothing.  When it succeeds every
\* item of the new ordering has its new index and no other record changes;
\* when it fails the collection is unchanged and the failure is reported.  In
\* both cases the list on screen is left as it is (no rollback) and the drag
\* marker is cleared.
C21_ReorderAtomic ==
  [][\A op \in drops :
       (op \notin drops') =>
          /\ \/ /\ ~reorderFailed
                /\ \A k \in 1..Len(op.list) :
                      /\ op.list[k].id \in DOMAIN docs'
                      /\ docs'[op.list[k].id].index = k
                /\ \A id \in DOMAIN docs' :
                      id \notin IdsOf(op.list)
                         => (id \in DOMAIN docs /\ docs'[id] = docs[id])
             \/ /\ reorderFailed
                /\ docs' = docs
          /\ items' = items
          /\ dragId' = NoId
    ]_vars

\* C21 witness: a reorder has failed; the list on screen keeps the order of
\* the drop, which is not the order of the collection, and the drag marker
\* is cleared
C21_Witness ==
  /\ alert = "Reorder failed."
  /\ drops = {} /\ dels = {} /\ ~dirty
  /\ dragId = NoId
  /\ Len(items) >= 2
  /\ items # querySnapshot(docs)
  /\ \A k \in 1..Len(items) : items[k].id \in DOMAIN docs

\* C22: in each of two sessions appending to the same collection, the record
\* write of the k-th file is possible whatever the collection holds, and
\* when it succeeds it writes the index L + 1 + k computed from the list the
\* session's append started on, without an alert, also when another record
\* already has that index; so the collision is neither detected nor prevented.
C22_CollisionUnchecked ==
  [][/\ (pick.pc = "setdoc" /\ pick.id \in DOMAIN docs')
          => /\ docs'[pick.id].index = pick.L + 1 + pick.i
             /\ alert' = ""
     /\ (pick2.pc = "setdoc" /\ pick2.id \in DOMAIN docs')
          => /\ docs'[pick2.id].index = pick2.L + 1 + pick2.i
             /\ alert2' = ""
     /\ pick.pc = "setdoc" => ENABLED pickSetDoc(TRUE)
     /\ pick2.pc = "setdoc" => ENABLED pickSetDoc2(TRUE)
    ]_vars

\* C22 witness: both sessions have appended one file to a collection of L
\* records without any alert, and the collection of L + 2 <= MAX_IMAGES
\* records holds two different records with the index L + 1
C22_Witness ==
  /\ pick = idlePick /\ pick2 = idlePick
  /\ alert = "" /\ alert2 = ""
  /\ Cardinality(DOMAIN docs) <= MAX_IMAGES
  /\ \E x, y \in DOMAIN docs :
       /\ x # y
       /\ docs[x].index = docs[y].index
       /\ docs[x].index = Cardinality(DOMAIN docs) - 1
       /\ \A z \in (DOMAIN docs) \ {x, y} : docs[z].index < docs[x].index

\* |a - b|
absDiff(a, b) == IF a >= b THEN a - b ELSE b - a

\* e2 is the edge e scaled by min(1, D / L) and rounded to the nearest integer
scaledRounded(e2, e, L, D) ==
  IF L <= D THEN e2 = e ELSE 2 * absDiff(e2 * L, e * D) <= L

\* the canvas c of a W x H bitmap respects the ceiling D without upscaling
withinCeiling(c, W, H, D) ==
  /\ 1 <= c.width /\ c.width <= W
  /\ 1 <= c.height /\ c.height <= H
  /\ Max(c.width, c.height) <= D
  /\ Max(W, H) <= D => (c.width = W /\ c.height = H)

\* the canvas the optimized variant was drawn to (none when the file was kept)
drawn == optimizedBlob.kind = "encoded"

\* C23 as stated: every canvas (ceiling 2400 for the optimized variant, 20
\* for the placeholder) has 1 <= w <= W, 1 <= h <= H, max(w, h) <= D, is
\* unchanged when max(W, H) <= D, and w and h are W and H scaled by
\* min(1, D / max(W, H)) and rounded.
C23_NeverUpscales ==
  LET L == Max(file.width, file.height)
  IN /\ drawn =>
          /\ withinCeiling(optimizedBlob, file.width, file.height, OPT_MAX_DIM)
          /\ scaledRounded(optimizedBlob.width, file.width, L, OPT_MAX_DIM)
          /\ scaledRounded(optimizedBlob.height, file.height, L, OPT_MAX_DIM)
     /\ tiny # NoCanvas =>
          /\ withinCeiling(tiny, file.width, file.height, TINY_DIM)
          /\ scaledRounded(tiny.width, file.width, L, TINY_DIM)
          /\ scaledRounded(tiny.height, file.height, L, TINY_DIM)

\* e2 is the scaled and rounded edge, or 1 where that rounding gives 0
scaledRoundedMin1(e2, e, L, D) ==
  \/ scaledRounded(e2, e, L, D)
  \/ (e2 = 1 /\ L > D /\ 2 * e * D < L)

\* C23 amended: the bounds hold, and w and h are the scaled and rounded
\* edges except that an edge whose scaled length rounds to 0 is 1.
C23_NeverUpscalesMin1 ==
  LET L == Max(file.width, file.height)
  IN /\ drawn =>
          /\ withinCeiling(optimizedBlob, file.width, file.height, OPT_MAX_DIM)
          /\ scaledRoundedMin1(optimizedBlob.width, file.width, L, OPT_MAX_DIM)
          /\ scaledRoundedMin1(optimizedBlob.height, file.height, L, OPT_MAX_DIM)
     /\ tiny # NoCanvas =>
          /\ withinCeiling(tiny, file.width, file.height, TINY_DIM)
          /\ scaledRoundedMin1(tiny.width, file.width, L, TINY_DIM)
          /\ scaledRoundedMin1(tiny.height, file.height, L, TINY_DIM)

\* C23 witness: a 4801 x 1 bitmap was drawn to 2400 x 1 for the optimized
\* variant and to 20 x 1 for the placeholder
C23_Witness ==
  /\ file.width = 4801 /\ file.height = 1
  /\ drawn /\ optimizedBlob.width = 2400 /\ optimizedBlob.height = 1
  /\ tiny.width = 20 /\ tiny.height = 1

\* C24: every invite record has expiresAt = createdAt + 24 hours.
C24_FixedDeadline ==
  \A t \in DOMAIN invites :
    invites[t].expiresAt = invites[t].createdAt + 24 * 60 * 60 * 1000

\* the page shows the "link invalid" error
linkInvalid(t) ==
  t.pc = "ready" /\ ~t.loading /\ t.error = "This link is invalid."

C26_NoUnhandledRejection == unhandled = {}

\* the binary uploads in flight: the calls of uploadOriginalAndOptimized that
\* are between their setOverall(active + 1) and the end of their uploads
inFlight ==
  (IF pick.pc = "upload" THEN 1 ELSE 0)
    + Cardinality({op \in repls : op.pc = "upload"})

\* C27: overall.active is the number of uploads in flight; so when no upload
\* is in flight and no append is running the editor is not "uploading".
C27_BusyExact ==
  /\ active = inFlight
  /\ (pick.pc = "idle" /\ repls = {}) => ~isUploading

\* the ids of s in order
idSeq(s) == [k \in 1..Len(s) |-> s[k].id]

\* C28: a drop whose dragged id is no longer in the list on screen changes
\* nothing: the list keeps its order and no batch with another order is
\* prepared.
C28_StaleDragChangesNothing ==
  [][\A over \in IdSet :
       (onDrop(over) /\ dragId \notin IdsOf(items))
          => /\ idSeq(items') = idSeq(items)
             /\ \A op \in drops' \ drops : idSeq(op.list) = idSeq(items)
    ]_vars

\* the ids among ids in the order of the collection
remoteOrder(d, ids) ==
  idSeq(SelectSeq(querySnapshot(d), LAMBDA r : r.id \in ids))

\* a reorder issued after the delete op was started has been committed: the
\* list on screen holds the items the delete left, in another order than the
\* delete captured, and the collection has them in that order
reorderedSince(op) ==
  /\ drops = {} /\ dels = {op} /\ pick.pc = "idle" /\ repls = {}
  /\ IdsOf(items) = IdsOf(op.next)
  /\ idSeq(items) # idSeq(op.next)
  /\ remoteOrder(docs, IdsOf(items)) = idSeq(items)

\* C29: when the re-index batch of a delete commits after a reorder that was
\* issued and committed while the delete was in flight, the collection keeps
\* the remaining items in the order of the reorder, with the indices 1..N.
C29_ReorderSurvivesDelete ==
  [][\A op \in dels :
       (delBatchCommit(op, TRUE) /\ reorderedSince(op))
          => /\ remoteOrder(docs', IdsOf(items)) = idSeq(items)
             /\ \A k \in 1..Len(items) : docs'[items[k].id].index = k
    ]_vars

\* C30: the statuses on screen follow the latest snapshot.  A status check
\* that ends after the check of a later snapshot has set the statuses leaves
\* the displayed status of every invite as it is, and once no check is
\* running every status entry was computed for the latest snapshot.
C30_StatusesFollowLatest ==
  [][/\ \A run \in runs :
          (setStatuses(run) /\ \E t \in DOMAIN statuses : statuses[t].seq > run.seq)
             => \A t \in DOMAIN statuses :
                   t \in DOMAIN statuses' /\ statuses'[t].st = statuses[t].st
     /\ runs' = {} => \A t \in DOMAIN statuses' : statuses'[t].seq = nRefresh'
    ]_vars

====
